---- MODULE Spec2Model ----
(***************************************************************************)
(* ctrl-w: token service (backend/services/authService.js, User model) and *)
(* pairing-session model (Session schema, statics and methods).            *)
(*                                                                         *)
(* The MongoDB store is the only shared state.  Every store operation of   *)
(* the code (findOne, findById, create, save, findByIdAndUpdate) is one    *)
(* atomic action, taken together with the local code that follows it up to *)
(* the next store request; the synchronous prefix of a call is the action  *)
(* that starts it.  Time is in milliseconds (Date.now()).                  *)
(***************************************************************************)
EXTENDS Integers, Sequences, FiniteSets, TLC

(***************************************************************************)
(* Bounds of the model.                                                    *)
(***************************************************************************)
MaxClock == 2000
MaxUsers == 2
MaxSessions == 3
MaxCalls == 4
MaxFlowCalls == 3
MaxLifeCalls == 3
MaxConnectRuns == 4
MaxBootClock == 20000

\* Clock increments offered to the environment (milliseconds).
TickSteps == {1000}

\* process.env.JWT_ACCESS_EXPIRY / JWT_REFRESH_EXPIRY, in seconds.
AccessExpirySec == 1
RefreshExpirySec == 2

\* Values Math.floor(Math.random() * 1000000) is let to take.
Draws == {42, 123456}

\* maxRetries arguments of generateUniquePairingCode; the default is 10.
DefaultMaxRetries == 10
MaxRetriesArgs == {0, 2, DefaultMaxRetries}

\* process.env.SESSION_EXPIRY_MINUTES || 30
SessionExpiryMinutes == 30

\* expiresAt given to Session.create: left out, or a date ttl milliseconds
\* after the clock.
ExpiryArgs == {[given |-> FALSE, ttl |-> 0], [given |-> TRUE, ttl |-> 1000],
               [given |-> TRUE, ttl |-> 120000]}

\* minutes arguments of extendExpiration.
MinutesArgs == {0, 1}

SessProcs == {"s1", "s2"}
LifeProcs == {"s1"}
SocketIds == {"socket-123", "socket-456"}
DeviceInfos == {"Chrome on iPhone", "undefined"}

AuthProcs == {"a1", "a2"}
Emails == {"a@x.com", "b@x.com"}
Passwords == {"secret1", "other1"}
Roles == {"user"}

NoToken == [key |-> "none"]
NoUser == [email |-> "none"]
NoDate == -1

VARIABLES
  now,        \* Date.now()
  users,      \* the users collection: _id -> document or NoUser
  issued,     \* every refresh token generateRefreshToken has returned
  accessIssued, \* every access token generateAccessToken has returned
  apc,        \* position of each token-service call
  aarg,       \* arguments of the call in progress
  adoc,       \* the user document the call holds in memory
  ares,       \* outcome of the last finished call
  ncalls,     \* calls made so far
  aobs,       \* per call: what held when it was made (history, read by no action)
  sessions,   \* the sessions collection: _id -> document or NoSession
  flow,       \* each session flow: position, locals, held document, last outcome
  nfcalls,    \* calls the session flows have made so far
  nlcalls,    \* removeParticipant, extendExpiration calls and message/file saves so far
  events,     \* per session: messages and files created, post-save hooks yet to run
  boot        \* the server process: startServer, connectDB and its retry timer

authVars == <<users, issued, accessIssued, apc, aarg, adoc, ares, ncalls, aobs>>
sessVars == <<sessions, flow, nfcalls, nlcalls, events>>

(***************************************************************************)
(* jsonwebtoken                                                            *)
(***************************************************************************)
NowSec == now \div 1000

\* jwt.sign: iat is the clock in whole seconds, exp = iat + expiresIn; the
\* signature is determined by payload and secret, so two tokens signed for the
\* same payload in the same second are the same string.
generateAccessToken(user) ==
  [key |-> "access", typ |-> "none", userId |-> user.id, email |-> user.email,
   role |-> user.role, iat |-> NowSec, exp |-> NowSec + AccessExpirySec,
   iss |-> "ctrl-w-api", aud |-> "ctrl-w-client"]

generateRefreshToken(user) ==
  [key |-> "refresh", typ |-> "refresh", userId |-> user.id, email |-> "none",
   role |-> "none", iat |-> NowSec, exp |-> NowSec + RefreshExpirySec,
   iss |-> "ctrl-w-api", aud |-> "ctrl-w-client"]

\* jwt.verify that skips the expiry comparison.
jwtVerify_NoExpiry(token, key) ==
  IF token.key # key THEN "JsonWebTokenError"
  ELSE IF token.aud # "ctrl-w-client" \/ token.iss # "ctrl-w-api"
       THEN "JsonWebTokenError"
  ELSE "ok"

\* jwt.verify(token, secret, {issuer, audience}): signature, then expiry, then
\* audience and issuer.
jwtVerify(token, key) ==
  IF token.key # key THEN "JsonWebTokenError"
  ELSE IF NowSec >= token.exp THEN "TokenExpiredError"
  ELSE IF token.aud # "ctrl-w-client" \/ token.iss # "ctrl-w-api"
       THEN "JsonWebTokenError"
  ELSE "ok"

(***************************************************************************)
(* bcrypt                                                                  *)
(***************************************************************************)
\* A password value: the text it was made from and how many times bcrypt.hash
\* has been applied to it (a hash of a hash is not the hash of the text).
Plain(text) == [text |-> text, hashes |-> 0]

bcryptHash_Identity(password) == password

bcryptHash(password) == [password EXCEPT !.hashes = @ + 1]

\* userSchema.pre('save') (User.js 111-126): the password is hashed only when
\* the path is modified; otherwise the hook leaves the document as it is.
preSavePassword_Always(password, modified) == bcryptHash(password)

preSavePassword(password, modified) ==
  IF ~modified THEN password ELSE bcryptHash(password)

comparePassword_Always(candidate, stored) == TRUE

comparePassword(candidate, stored) == stored = bcryptHash(Plain(candidate))

(***************************************************************************)
(* users collection                                                        *)
(***************************************************************************)
UserIds == 1..MaxUsers

ExistingIds == {i \in UserIds : users[i] # NoUser}

\* User.findOne({ email })
findByEmail_None(email) == {}

findByEmail(email) == {i \in ExistingIds : users[i].email = email}

\* An _id is never given twice: not one that is stored, not one a token names.
FreeUserIds == UserIds \ (ExistingIds \cup {t.userId : t \in issued})

FreshId == CHOOSE i \in FreeUserIds : \A j \in FreeUserIds : i <= j

NoArg == [email |-> "none", password |-> "none", role |-> "none",
          token |-> NoToken, userId |-> 0, call |-> "none"]

NoDoc == [id |-> 0]

NoObs == [slotMatch |-> FALSE, overlap |-> FALSE]

Result(kind, access, refresh) ==
  [kind |-> kind, accessToken |-> access, refreshToken |-> refresh]

NoResult == Result("none", NoToken, NoToken)

(***************************************************************************)
(* verifyRefreshToken (authService.js 141-180), the part before its store  *)
(* read: signature/expiry, then the type check.                            *)
(***************************************************************************)
verifyRefreshTokenSync_NoTypeCheck(token) == jwtVerify(token, "refresh")

verifyRefreshTokenSync(token) ==
  LET v == jwtVerify(token, "refresh") IN
    IF v # "ok" THEN v
    ELSE IF token.typ # "refresh" THEN "InvalidTokenType"
    ELSE "ok"

\* Steps 3 of verifyRefreshToken on the document findById returned: the
\* function has no return statement, so a token that passes every check makes
\* it resolve to undefined.
verifyRefreshTokenStored_NoSlotCheck(token) ==
  IF users[token.userId] = NoUser THEN "UserNotFound"
  ELSE "undefined"

verifyRefreshTokenStored(token) ==
  IF users[token.userId] = NoUser THEN "UserNotFound"
  ELSE IF users[token.userId].refreshToken # token THEN "RevokedToken"
  ELSE "undefined"

\* refresh (authService.js 309-340) after `await verifyRefreshToken(...)`:
\* an error thrown by the verification is rethrown with statusCode 401; on
\* undefined, `decoded.userId` throws a TypeError, which the same catch
\* rethrows with statusCode 401.  Lines 315-335 are never reached.
refreshOutcome(token) ==
  LET v == verifyRefreshTokenStored(token) IN
    IF v = "undefined" THEN "TypeError" ELSE v

\* What a refresh call with the token ends with: the error of the part before
\* the store read, or the outcome after it.
refreshResult(token) ==
  IF verifyRefreshTokenSync(token) # "ok" THEN verifyRefreshTokenSync(token)
  ELSE refreshOutcome(token)

(***************************************************************************)
(* Initial state                                                           *)
(***************************************************************************)
AuthInit ==
  /\ users = [i \in UserIds |-> NoUser]
  /\ issued = {}
  /\ accessIssued = {}
  /\ apc = [p \in AuthProcs |-> "idle"]
  /\ aarg = [p \in AuthProcs |-> NoArg]
  /\ adoc = [p \in AuthProcs |-> NoDoc]
  /\ ares = [p \in AuthProcs |-> NoResult]
  /\ ncalls = 0
  /\ aobs = [p \in AuthProcs |-> NoObs]

(***************************************************************************)
(* Clock                                                                   *)
(***************************************************************************)
Tick ==
  /\ \E d \in TickSteps :
       /\ now + d <= MaxClock
       /\ now' = now + d
  /\ UNCHANGED <<authVars, sessVars>>

(***************************************************************************)
(* register (authService.js 200-239)                                       *)
(***************************************************************************)
Finish(p, result) ==
  /\ apc' = [apc EXCEPT ![p] = "done"]
  /\ ares' = [ares EXCEPT ![p] = result]

Begin(p) ==
  /\ apc[p] = "idle"
  /\ ncalls < MaxCalls
  /\ ncalls' = ncalls + 1

RegisterCall(p) ==
  /\ Begin(p)
  /\ UNCHANGED aobs
  /\ \E e \in Emails, pw \in Passwords, r \in Roles :
       aarg' = [aarg EXCEPT ![p] = [NoArg EXCEPT !.email = e,
                                                 !.password = pw, !.role = r]]
  /\ apc' = [apc EXCEPT ![p] = "reg_find"]
  /\ UNCHANGED <<ares, adoc>>
  /\ UNCHANGED <<now, users, issued, accessIssued>>

\* 1. User.findOne({ email }); an existing user is a 409.
RegisterFind(p) ==
  /\ apc[p] = "reg_find"
  /\ IF findByEmail(aarg[p].email) # {}
       THEN Finish(p, Result("EmailAlreadyRegistered", NoToken, NoToken))
       ELSE /\ apc' = [apc EXCEPT ![p] = "reg_create"]
            /\ UNCHANGED ares
  /\ UNCHANGED <<now, users, issued, accessIssued, aarg, adoc, ncalls, aobs>>

\* 2. User.create: the pre-save hook hashes the password, the insert is checked
\* against the unique index on email (E11000 on a duplicate).  3. the tokens
\* are generated from the created document.
RegisterCreate(p) ==
  /\ apc[p] = "reg_create"
  /\ findByEmail(aarg[p].email) # {} \/ FreeUserIds # {}
  /\ IF findByEmail(aarg[p].email) # {}
       THEN /\ Finish(p, Result("E11000", NoToken, NoToken))
            /\ UNCHANGED <<users, issued, accessIssued, adoc>>
       ELSE LET id == FreshId
                doc == [id |-> id, email |-> aarg[p].email, role |-> aarg[p].role]
            IN /\ users' = [users EXCEPT ![id] =
                    [email |-> aarg[p].email,
                     password |-> preSavePassword(Plain(aarg[p].password), TRUE),
                     role |-> aarg[p].role, isActive |-> TRUE,
                     lastLogin |-> NoDate, refreshToken |-> NoToken]]
               /\ adoc' = [adoc EXCEPT ![p] =
                    [id |-> id, email |-> doc.email, role |-> doc.role,
                     password |-> preSavePassword(Plain(aarg[p].password), TRUE),
                     accessToken |-> generateAccessToken(doc),
                     refreshToken |-> generateRefreshToken(doc)]]
               /\ issued' = issued \cup {generateRefreshToken(doc)}
               /\ accessIssued' = accessIssued \cup {generateAccessToken(doc)}
               /\ apc' = [apc EXCEPT ![p] = "reg_save"]
               /\ UNCHANGED ares
  /\ UNCHANGED <<now, aarg, ncalls, aobs>>

\* 4. user.refreshToken = refreshToken; user.save(): $set of the modified path
\* (a document that is no longer stored makes save() fail).
RegisterSave(p) ==
  /\ apc[p] = "reg_save"
  /\ IF users[adoc[p].id] = NoUser
       THEN /\ Finish(p, Result("DocumentNotFoundError", NoToken, NoToken))
            /\ UNCHANGED users
       ELSE /\ users' = [users EXCEPT
                           ![adoc[p].id].refreshToken = adoc[p].refreshToken,
                           ![adoc[p].id].password =
                              IF preSavePassword(adoc[p].password, FALSE)
                                   = adoc[p].password
                                THEN @
                                ELSE preSavePassword(adoc[p].password, FALSE)]
            /\ Finish(p, Result("ok", adoc[p].accessToken, adoc[p].refreshToken))
  /\ UNCHANGED <<now, issued, accessIssued, aarg, adoc, ncalls, aobs>>

(***************************************************************************)
(* login (authService.js 259-291, User.findByCredentials 166-179)          *)
(***************************************************************************)
LoginCall(p) ==
  /\ Begin(p)
  /\ UNCHANGED aobs
  /\ \E e \in Emails, pw \in Passwords :
       aarg' = [aarg EXCEPT ![p] = [NoArg EXCEPT !.email = e, !.password = pw]]
  /\ apc' = [apc EXCEPT ![p] = "login_find"]
  /\ UNCHANGED <<ares, adoc>>
  /\ UNCHANGED <<now, users, issued, accessIssued>>

\* findOne({ email }).select('+password'), comparePassword, then the tokens
\* and lastLogin are set on the loaded document.  (reissue and resaved are
\* history: the refresh token just signed is a string that had been issued
\* before; the document read had already been saved by an earlier login.)
LoginFind(p) ==
  /\ apc[p] = "login_find"
  /\ LET found == findByEmail(aarg[p].email) IN
       IF found = {}
         THEN /\ Finish(p, Result("InvalidCredentials", NoToken, NoToken))
              /\ UNCHANGED <<issued, accessIssued, adoc>>
         ELSE LET id == CHOOSE i \in found : TRUE
                  doc == [id |-> id, email |-> users[id].email,
                          role |-> users[id].role]
              IN IF ~comparePassword(aarg[p].password, users[id].password)
                   THEN /\ Finish(p, Result("InvalidCredentials", NoToken, NoToken))
                        /\ UNCHANGED <<issued, accessIssued, adoc>>
                   ELSE /\ adoc' = [adoc EXCEPT ![p] =
                              [id |-> id, email |-> doc.email, role |-> doc.role,
                               password |-> users[id].password,
                               resaved |-> users[id].lastLogin # NoDate,
                               accessToken |-> generateAccessToken(doc),
                               refreshToken |-> generateRefreshToken(doc),
                               lastLogin |-> now,
                               reissue |-> generateRefreshToken(doc) \in issued]]
                        /\ issued' = issued \cup {generateRefreshToken(doc)}
                        /\ accessIssued' = accessIssued \cup {generateAccessToken(doc)}
                        /\ apc' = [apc EXCEPT ![p] = "login_save"]
                        /\ UNCHANGED ares
  /\ UNCHANGED <<now, users, aarg, ncalls, aobs>>

\* user.save(): $set of refreshToken and lastLogin, whatever the slot holds.
LoginSave(p) ==
  /\ apc[p] = "login_save"
  /\ IF users[adoc[p].id] = NoUser
       THEN /\ Finish(p, Result("DocumentNotFoundError", NoToken, NoToken))
            /\ UNCHANGED users
       ELSE /\ users' = [users EXCEPT
                           ![adoc[p].id].refreshToken = adoc[p].refreshToken,
                           ![adoc[p].id].lastLogin = adoc[p].lastLogin,
                           ![adoc[p].id].password =
                              IF preSavePassword(adoc[p].password, FALSE)
                                   = adoc[p].password
                                THEN @
                                ELSE preSavePassword(adoc[p].password, FALSE)]
            /\ Finish(p, Result("ok", adoc[p].accessToken, adoc[p].refreshToken))
  /\ UNCHANGED <<now, issued, accessIssued, aarg, adoc, ncalls, aobs>>

(***************************************************************************)
(* refresh (authService.js 309-340)                                        *)
(***************************************************************************)
\* The token is the one stored in the slot of an existing, active identity.
Presentable(t) ==
  /\ users[t.userId] # NoUser
  /\ users[t.userId].isActive
  /\ users[t.userId].refreshToken = t

\* Call q is a refresh of token t that has not yet read the store.
InFlightWith(q, t) == apc[q] = "refresh_find" /\ aarg[q].token = t

\* Strings a caller can present to refresh: the refresh tokens issued, the
\* access tokens issued, and an access token as it is when JWT_ACCESS_SECRET
\* and JWT_REFRESH_SECRET are configured with the same value.
PresentedRefresh ==
  issued \cup accessIssued \cup {[t EXCEPT !.key = "refresh"] : t \in accessIssued}

\* The call runs verifyRefreshToken up to its first await: jwt.verify and the
\* type check.
RefreshCall(p) ==
  /\ Begin(p)
  /\ \E t \in PresentedRefresh :
       /\ aarg' = [aarg EXCEPT ![p] = [NoArg EXCEPT !.token = t]]
       /\ aobs' = [q \in AuthProcs |->
            IF q = p
              THEN [slotMatch |-> Presentable(t),
                    overlap |-> /\ verifyRefreshTokenSync(t) = "ok"
                                /\ \E r \in AuthProcs \ {p} : InFlightWith(r, t)]
              ELSE [aobs[q] EXCEPT !.overlap =
                      @ \/ (verifyRefreshTokenSync(t) = "ok" /\ InFlightWith(q, t))]]
       /\ IF verifyRefreshTokenSync(t) # "ok"
            THEN Finish(p, Result(verifyRefreshTokenSync(t), NoToken, NoToken))
            ELSE /\ apc' = [apc EXCEPT ![p] = "refresh_find"]
                 /\ UNCHANGED ares
  /\ UNCHANGED <<now, users, issued, accessIssued, adoc>>

\* User.findById(decoded.userId).select('+refreshToken') and what follows it.
RefreshFind(p) ==
  /\ apc[p] = "refresh_find"
  /\ Finish(p, Result(refreshOutcome(aarg[p].token), NoToken, NoToken))
  /\ UNCHANGED <<now, users, issued, accessIssued, aarg, adoc, ncalls, aobs>>

(***************************************************************************)
(* logout (authService.js 362-371)                                         *)
(***************************************************************************)
LogoutCall(p) ==
  /\ Begin(p)
  /\ UNCHANGED aobs
  /\ \E id \in UserIds :
       aarg' = [aarg EXCEPT ![p] = [NoArg EXCEPT !.userId = id]]
  /\ apc' = [apc EXCEPT ![p] = "logout_update"]
  /\ UNCHANGED <<ares, adoc>>
  /\ UNCHANGED <<now, users, issued, accessIssued>>

\* User.findByIdAndUpdate(userId, { $unset: { refreshToken: 1 } }); a missing
\* user matches nothing and is no error.
LogoutUpdate_KeepsSlot(p) ==
  /\ apc[p] = "logout_update"
  /\ Finish(p, Result("ok", NoToken, NoToken))
  /\ UNCHANGED <<now, users, issued, accessIssued, aarg, adoc, ncalls, aobs>>

LogoutUpdate(p) ==
  /\ apc[p] = "logout_update"
  /\ users' = IF users[aarg[p].userId] = NoUser THEN users
              ELSE [users EXCEPT ![aarg[p].userId].refreshToken = NoToken]
  /\ Finish(p, Result("ok", NoToken, NoToken))
  /\ UNCHANGED <<now, issued, accessIssued, aarg, adoc, ncalls, aobs>>

\* The caller takes the result; the process is free for its next call.
Return(p) ==
  /\ apc[p] = "done"
  /\ apc' = [apc EXCEPT ![p] = "idle"]
  /\ aarg' = [aarg EXCEPT ![p] = NoArg]
  /\ adoc' = [adoc EXCEPT ![p] = NoDoc]
  /\ ares' = [ares EXCEPT ![p] = NoResult]
  /\ aobs' = [aobs EXCEPT ![p] = NoObs]
  /\ UNCHANGED <<now, users, issued, accessIssued, ncalls>>

(***************************************************************************)
(* verifyAccessToken (authService.js 104-126)                              *)
(***************************************************************************)
VerifyResult(kind, message, userId) ==
  [kind |-> kind, accessToken |-> NoToken, refreshToken |-> NoToken,
   message |-> message, userId |-> userId]

\* A verification that also looks at the refresh slot of the token's user.
verifyAccessToken_ChecksSlot(token) ==
  LET v == jwtVerify(token, "access") IN
    IF v = "ok" /\ users[token.userId] # NoUser
                /\ users[token.userId].refreshToken # NoToken
      THEN VerifyResult("ok", "none", token.userId)
    ELSE IF v = "ok" THEN VerifyResult("JsonWebTokenError", "Invalid access token", 0)
    ELSE VerifyResult(v, "none", 0)

\* jwt.verify with the access secret, issuer and audience.  The catch compares
\* the error object itself with the string 'TokenExpiredError' (line 115), which
\* is never equal, so an expiry error is rethrown as jsonwebtoken made it
\* (name TokenExpiredError, message 'jwt expired'); a JsonWebTokenError is
\* replaced by one of the same name with message 'Invalid access token'.
verifyAccessToken(token) ==
  LET v == jwtVerify(token, "access") IN
    IF v = "ok" THEN VerifyResult("ok", "none", token.userId)
    ELSE IF v = "TokenExpiredError" THEN VerifyResult(v, "jwt expired", 0)
    ELSE VerifyResult("JsonWebTokenError", "Invalid access token", 0)

\* Strings a caller can present: what was issued, and an issued access token
\* with another signature, another audience or another issuer.
Altered(t) == {[t EXCEPT !.key = "forged"], [t EXCEPT !.aud = "other-client"],
               [t EXCEPT !.iss = "other-api"]}

PresentedAccess == accessIssued \cup issued \cup UNION {Altered(t) : t \in accessIssued}

\* The function is synchronous: called and returned in one step.
VerifyAccess(p) ==
  /\ Begin(p)
  /\ \E t \in PresentedAccess :
       /\ aarg' = [aarg EXCEPT ![p] = [NoArg EXCEPT !.token = t,
                                                 !.call = "verifyAccessToken"]]
       /\ Finish(p, verifyAccessToken(t))
  /\ UNCHANGED <<now, users, issued, accessIssued, adoc, aobs>>

(***************************************************************************)
(* verifyUserToken (authService.js 382-397)                                *)
(***************************************************************************)
identityUsable_Always(user) == TRUE

\* !user || !user.isActive is the rejection.
identityUsable(user) == user # NoUser /\ user.isActive

\* verifyAccessToken(token) runs before the first await.
VerifyUserCall(p) ==
  /\ Begin(p)
  /\ \E t \in PresentedAccess :
       /\ aarg' = [aarg EXCEPT ![p] = [NoArg EXCEPT !.token = t,
                                                 !.call = "verifyUserToken"]]
       /\ IF verifyAccessToken(t).kind # "ok"
            THEN Finish(p, verifyAccessToken(t))
            ELSE /\ apc' = [apc EXCEPT ![p] = "vut_find"]
                 /\ UNCHANGED ares
  /\ UNCHANGED <<now, users, issued, accessIssued, adoc, aobs>>

\* User.findById(decoded.userId); the decoded userId is the return value.
VerifyUserFind(p) ==
  /\ apc[p] = "vut_find"
  /\ IF identityUsable(users[aarg[p].token.userId])
       THEN Finish(p, VerifyResult("ok", "none", aarg[p].token.userId))
       ELSE Finish(p, VerifyResult("UserNotFoundOrInactive",
                                   "User not found or inactive", 0))
  /\ UNCHANGED <<now, users, issued, accessIssued, aarg, adoc, ncalls, aobs>>

(***************************************************************************)
(* Removal of a user document (testModels.js 192)                          *)
(***************************************************************************)
\* User.findByIdAndDelete(user._id)
DeleteUser(id) ==
  /\ users[id] # NoUser
  /\ ncalls < MaxCalls
  /\ ncalls' = ncalls + 1
  /\ users' = [users EXCEPT ![id] = NoUser]
  /\ UNCHANGED <<now, issued, accessIssued, apc, aarg, adoc, ares, aobs>>

(***************************************************************************)
(* A store request that fails (timeout or lost connection)                 *)
(***************************************************************************)
NoStatus == 0

Unauthorized == 401

FaultResult(kind, statusCode) ==
  [kind |-> kind, accessToken |-> NoToken, refreshToken |-> NoToken,
   statusCode |-> statusCode]

\* What the catch block of the function at position pc does with an error
\* that is neither a conflict nor an authentication error: register rethrows
\* it (authService.js 236-238), login stamps only 'Invalid credentials'
\* (284-290), refresh stamps every error with 401 (336-339).
surfacedStatus(pc) == IF pc = "refresh_find" THEN Unauthorized ELSE NoStatus

\* The awaited request of call p rejects with a network error: the catch
\* block of the function sees it, and nothing is written.
StoreFails(p) ==
  /\ apc[p] \in {"reg_find", "reg_create", "reg_save", "login_find",
                 "login_save", "refresh_find"}
  /\ Finish(p, FaultResult("MongoNetworkError", surfacedStatus(apc[p])))
  /\ UNCHANGED <<now, users, issued, accessIssued, aarg, adoc, ncalls, aobs>>

(***************************************************************************)
(* The account status flag (User.js 55-59)                                 *)
(***************************************************************************)
\* isActive is a path of the exported User model with default true; nothing
\* in the token service writes it.  A holder of the model turns it off.
Deactivate(id) ==
  /\ users[id] # NoUser
  /\ users[id].isActive
  /\ ncalls < MaxCalls
  /\ ncalls' = ncalls + 1
  /\ users' = [users EXCEPT ![id].isActive = FALSE]
  /\ UNCHANGED <<now, issued, accessIssued, apc, aarg, adoc, ares, aobs>>

AuthNext ==
  \/ Tick
  \/ \E p \in AuthProcs :
       \/ RegisterCall(p) \/ RegisterFind(p) \/ RegisterCreate(p) \/ RegisterSave(p)
       \/ LoginCall(p) \/ LoginFind(p) \/ LoginSave(p)
       \/ RefreshCall(p) \/ RefreshFind(p)
       \/ LogoutCall(p) \/ LogoutUpdate(p)
       \/ Return(p)

\* The token service with store requests that can fail.
FaultNext ==
  \/ Tick
  \/ \E p \in AuthProcs :
       \/ RegisterCall(p) \/ RegisterFind(p) \/ RegisterCreate(p) \/ RegisterSave(p)
       \/ LoginCall(p) \/ LoginFind(p) \/ LoginSave(p)
       \/ RefreshCall(p) \/ RefreshFind(p)
       \/ StoreFails(p)
       \/ Return(p)

\* The token service with the verifications and with user removal.
VerifyNext ==
  \/ Tick
  \/ \E p \in AuthProcs :
       \/ RegisterCall(p) \/ RegisterFind(p) \/ RegisterCreate(p) \/ RegisterSave(p)
       \/ LoginCall(p) \/ LoginFind(p) \/ LoginSave(p)
       \/ LogoutCall(p) \/ LogoutUpdate(p)
       \/ VerifyAccess(p)
       \/ VerifyUserCall(p) \/ VerifyUserFind(p)
       \/ Return(p)
  \/ \E id \in UserIds : DeleteUser(id) \/ Deactivate(id)


(***************************************************************************)
(* Pairing codes (User.js 345-347)                                         *)
(***************************************************************************)
\* Number.prototype.toString: the decimal digits, most significant first
\* (a digit character is written as its value).
RECURSIVE toString(_)
toString(n) == IF n < 10 THEN <<n>> ELSE toString(n \div 10) \o <<n % 10>>

\* String.prototype.padStart(targetLength, padString) for a one-character pad.
RECURSIVE padStart(_, _, _)
padStart(str, targetLength, pad) ==
  IF Len(str) >= targetLength THEN str
  ELSE padStart(<<pad>> \o str, targetLength, pad)

formatCode_NoPad(n) == toString(n)

formatCode(n) == padStart(toString(n), 6, 0)

\* /^[0-9]{6}$/
matchesCodePattern(code) ==
  /\ Len(code) = 6
  /\ \A i \in 1..Len(code) : code[i] \in 0..9

(***************************************************************************)
(* sessions collection (Session schema, User.js 202-277)                   *)
(***************************************************************************)
SessionIds == 1..MaxSessions

NoSession == [status |-> "none"]

StoredIds == {i \in SessionIds : sessions[i] # NoSession}

\* A lookup that sees only sessions that are active and not past their expiry.
findOneByCode_ActiveOnly(code) ==
  {i \in StoredIds : /\ sessions[i].pairingCode = code
                     /\ sessions[i].status = "active"
                     /\ sessions[i].expiresAt >= now}

\* Session.findOne({ pairingCode: code }): any stored session, whatever its
\* status.
findOneByCode(code) == {i \in StoredIds : sessions[i].pairingCode = code}

\* The unique index on pairingCode rejects an insert whose code is stored.
uniqueIndexRejects_Never(code) == FALSE

uniqueIndexRejects(code) == \E i \in StoredIds : sessions[i].pairingCode = code

NoHeld == [id |-> 0, participants |-> <<>>, status |-> "none",
           expiresAt |-> NoDate, lastActivity |-> NoDate, version |-> 0]

NoFlowResult == [kind |-> "none"]

\* expiryGiven: the flow passed an expiresAt to Session.create; dirty: the paths
\* of the held document modified since it was last saved; overlapped (history):
\* when the last save of the flow was answered, another flow had a save of
\* its own copy of the same document under way.
IdleFlow == [pc |-> "idle", maxRetries |-> 0, attempt |-> 0, draws |-> 0,
             code |-> <<>>, expiryGiven |-> FALSE, doc |-> NoHeld,
             socketId |-> "none", dirty |-> {}, res |-> NoFlowResult,
             overlapped |-> FALSE]

NoEvents == [messages |-> 0, files |-> 0, messageHooks |-> 0, fileHooks |-> 0]

\* An _id is never given twice: not one that is stored, not one a flow holds,
\* not one a message or file names.
FreeSessionIds ==
  SessionIds \ (StoredIds \cup {flow[p].doc.id : p \in SessProcs}
                          \cup {i \in SessionIds : events[i] # NoEvents})

FreshSessionId == CHOOSE i \in FreeSessionIds : \A j \in FreeSessionIds : i <= j

\* The expiresAt default (Session.js 62-71) calls `parsInt`, a name declared
\* nowhere: evaluating the default throws a ReferenceError and no date results.
defaultExpiresAt == [kind |-> "ReferenceError", value |-> NoDate]

\* expiresAt of a new document: the date passed, or the schema default.
expiresAtFor(arg) ==
  IF ~arg.given THEN defaultExpiresAt
  ELSE [kind |-> "ok", value |-> now + arg.ttl]

SessInit ==
  /\ sessions = [i \in SessionIds |-> NoSession]
  /\ flow = [p \in SessProcs |-> IdleFlow]
  /\ nfcalls = 0
  /\ nlcalls = 0
  /\ events = [i \in SessionIds |-> NoEvents]

(***************************************************************************)
(* Session.generateUniquePairingCode (User.js 336-364)                     *)
(***************************************************************************)
\* the loop condition, line 339
loopContinues_OffByOne(attempt, maxRetries) == attempt <= maxRetries

loopContinues(attempt, maxRetries) == attempt < maxRetries

\* The call runs to the first `await this.findOne`: the first draw, unless the
\* loop body is never entered and the function throws at once.
GenerateCall(p) ==
  /\ flow[p].pc = "idle"
  /\ nfcalls < MaxFlowCalls
  /\ nfcalls' = nfcalls + 1
  /\ \E mr \in MaxRetriesArgs :
       IF loopContinues(0, mr)
         THEN \E n \in Draws :
                flow' = [flow EXCEPT ![p] =
                  [IdleFlow EXCEPT !.pc = "gen_find", !.maxRetries = mr,
                                   !.draws = 1, !.code = formatCode(n)]]
         ELSE flow' = [flow EXCEPT ![p] =
                  [IdleFlow EXCEPT !.pc = "failed", !.maxRetries = mr,
                                   !.res = [kind |-> "Exhausted"]]]
  /\ UNCHANGED <<now, authVars, sessions, nlcalls, events>>

\* findOne for the drawn code and the code after it: return the code, or go
\* round the loop (the next draw), or leave the loop and throw.
GenerateFind(p) ==
  /\ flow[p].pc = "gen_find"
  /\ IF findOneByCode(flow[p].code) = {}
       THEN flow' = [flow EXCEPT ![p].pc = "allocated",
                                 ![p].res = [kind |-> "code"]]
       ELSE IF loopContinues(flow[p].attempt + 1, flow[p].maxRetries)
         THEN \E n \in Draws :
                flow' = [flow EXCEPT ![p].attempt = @ + 1,
                                     ![p].draws = @ + 1,
                                     ![p].code = formatCode(n)]
         ELSE flow' = [flow EXCEPT ![p].attempt = @ + 1,
                                   ![p].pc = "failed",
                                   ![p].res = [kind |-> "Exhausted"]]
  /\ UNCHANGED <<now, authVars, sessions, nfcalls, nlcalls, events>>

(***************************************************************************)
(* Session.create({ pairingCode, creator, status: 'active' })              *)
(* (testModels.js 62-67): schema defaults, validation, insert.             *)
(***************************************************************************)
SessionCreate(p) ==
  /\ flow[p].pc = "allocated"
  /\ \E arg \in ExpiryArgs :
       LET exp == expiresAtFor(arg) IN
       IF exp.kind # "ok"
         THEN /\ flow' = [flow EXCEPT ![p].pc = "failed",
                                      ![p].expiryGiven = arg.given,
                                      ![p].res = [kind |-> exp.kind]]
              /\ UNCHANGED sessions
       ELSE IF ~matchesCodePattern(flow[p].code)
         THEN /\ flow' = [flow EXCEPT ![p].pc = "failed",
                                      ![p].expiryGiven = arg.given,
                                      ![p].res = [kind |-> "ValidationError"]]
              /\ UNCHANGED sessions
       ELSE IF uniqueIndexRejects(flow[p].code)
         THEN /\ flow' = [flow EXCEPT ![p].pc = "failed",
                                      ![p].expiryGiven = arg.given,
                                      ![p].res = [kind |-> "E11000"]]
              /\ UNCHANGED sessions
         ELSE /\ FreeSessionIds # {}
              /\ LET id == FreshSessionId IN
                   /\ sessions' = [sessions EXCEPT ![id] =
                        [pairingCode |-> flow[p].code, creator |-> 0,
                         participants |-> <<>>, status |-> "active",
                         expiresAt |-> exp.value, messageCount |-> 0,
                         fileCount |-> 0, lastActivity |-> now,
                         version |-> 0]]
                   /\ flow' = [flow EXCEPT ![p].pc = "holding",
                                 ![p].expiryGiven = arg.given,
                                 ![p].doc = [id |-> id, participants |-> <<>>,
                                             status |-> "active",
                                             expiresAt |-> exp.value,
                                             lastActivity |-> now,
                                             version |-> 0],
                                 ![p].res = [kind |-> "created"]]
  /\ UNCHANGED <<now, authVars, nfcalls, nlcalls, events>>

(***************************************************************************)
(* session.addParticipant (User.js 379-393)                                *)
(***************************************************************************)
\* this.participants.some((p) => p.socketId === socketId)
hasParticipant_Never(participants, socketId) == FALSE

hasParticipant(participants, socketId) ==
  \E i \in 1..Len(participants) : participants[i].socketId = socketId

\* The call up to `await this.save()`: nothing at all when the id is present.
AddParticipantCall(p) ==
  /\ flow[p].pc = "holding"
  /\ nfcalls < MaxFlowCalls
  /\ nfcalls' = nfcalls + 1
  /\ \E sock \in SocketIds, info \in DeviceInfos :
       IF hasParticipant(flow[p].doc.participants, sock)
         THEN flow' = [flow EXCEPT ![p].socketId = sock,
                                   ![p].res = [kind |-> "unchanged"]]
         ELSE flow' = [flow EXCEPT
                ![p].pc = "add_save",
                ![p].socketId = sock,
                ![p].res = NoFlowResult,
                ![p].doc.participants = Append(@,
                   [socketId |-> sock,
                    deviceInfo |-> IF info = "undefined" THEN "Unknown" ELSE info,
                    joinedAt |-> now]),
                ![p].doc.lastActivity = now]
  /\ UNCHANGED <<now, authVars, sessions, nlcalls, events>>

\* Another flow has a save of its own copy of document id under way.
savePending(p, id) ==
  \E q \in SessProcs \ {p} :
    flow[q].pc \in {"add_save", "rem_save", "ext_save"} /\ flow[q].doc.id = id

\* save(): $push of the new entries, $set of lastActivity (set before the
\* await, so possibly earlier than the clock at the time of the write); a
\* document that is no longer stored makes save() fail.  A $push increments
\* the stored __v and is sent without a condition on it.
AddParticipantSave(p) ==
  /\ flow[p].pc = "add_save"
  /\ LET id == flow[p].doc.id
         mine == flow[p].doc.participants
         new == mine[Len(mine)]
     IN IF sessions[id] = NoSession
          THEN /\ UNCHANGED sessions
               /\ flow' = [flow EXCEPT ![p].pc = "holding",
                                        ![p].overlapped = savePending(p, id),
                                        ![p].res = [kind |-> "DocumentNotFound"]]
          ELSE /\ sessions' = [sessions EXCEPT
                     ![id].participants = Append(@, new),
                     ![id].lastActivity = new.joinedAt,
                     ![id].version = @ + 1]
               /\ flow' = [flow EXCEPT ![p].pc = "holding",
                                        ![p].doc.version = @ + 1,
                                        ![p].overlapped = savePending(p, id),
                                        ![p].res = [kind |-> "added"]]
  /\ UNCHANGED <<now, authVars, nfcalls, nlcalls, events>>

(***************************************************************************)
(* session.removeParticipant (User.js 403-413)                             *)
(***************************************************************************)
\* this.participants.filter((p) => p.socketId !== socketId)
RECURSIVE filterOut(_, _)
filterOut(participants, socketId) ==
  IF participants = <<>> THEN <<>>
  ELSE IF Head(participants).socketId = socketId
    THEN filterOut(Tail(participants), socketId)
    ELSE <<Head(participants)>> \o filterOut(Tail(participants), socketId)

\* lines 407-410: an empty list marks the document closed, whatever the status
\* it had.
statusAfterRemove_Never(participants, status) == status

statusAfterRemove(participants, status) ==
  IF Len(participants) = 0 THEN "closed" ELSE status

\* The paths in which document `new` differs from `old`: what save() sends.
modifiedPaths(old, new) ==
  {f \in {"participants", "status", "expiresAt", "lastActivity"} : old[f] # new[f]}

\* A flow that holds a document makes one more call on it.
LifeBegin(p) ==
  /\ flow[p].pc = "holding"
  /\ nlcalls < MaxLifeCalls
  /\ nlcalls' = nlcalls + 1

\* The call up to `await this.save()`.
RemoveParticipantCall(p) ==
  /\ LifeBegin(p)
  /\ \E sock \in SocketIds :
       LET old == flow[p].doc
           left == filterOut(old.participants, sock)
           new == [old EXCEPT !.participants = left,
                              !.lastActivity = now,
                              !.status = statusAfterRemove(left, old.status)]
       IN flow' = [flow EXCEPT ![p].pc = "rem_save",
                               ![p].socketId = sock,
                               ![p].doc = new,
                               ![p].dirty = modifiedPaths(old, new),
                               ![p].res = NoFlowResult]
  /\ UNCHANGED <<now, authVars, sessions, nfcalls, events>>

\* save(): $set of the modified paths; no modified path, no write; a document
\* that is no longer stored makes save() fail.  A $set of the participants
\* array is sent with the condition that the stored __v is the one loaded,
\* and increments it; when nothing matches, save() fails with a VersionError.
saveModified(p, kind) ==
  LET id == flow[p].doc.id
      d == flow[p].dirty
      versioned == "participants" \in d
  IN IF d = {}
       THEN /\ UNCHANGED sessions
            /\ flow' = [flow EXCEPT ![p].pc = "holding",
                                     ![p].overlapped = savePending(p, id),
                                     ![p].res = [kind |-> kind]]
     ELSE IF versioned /\ (sessions[id] = NoSession
                             \/ sessions[id].version # flow[p].doc.version)
       THEN /\ UNCHANGED sessions
            /\ flow' = [flow EXCEPT ![p].pc = "holding", ![p].dirty = {},
                                     ![p].overlapped = savePending(p, id),
                                     ![p].res = [kind |-> "VersionError"]]
     ELSE IF sessions[id] = NoSession
       THEN /\ UNCHANGED sessions
            /\ flow' = [flow EXCEPT ![p].pc = "holding", ![p].dirty = {},
                                     ![p].overlapped = savePending(p, id),
                                     ![p].res = [kind |-> "DocumentNotFound"]]
       ELSE /\ sessions' = [sessions EXCEPT ![id] =
                  [f \in DOMAIN sessions[id] |->
                     IF f \in d THEN flow[p].doc[f]
                     ELSE IF f = "version" /\ versioned THEN sessions[id][f] + 1
                     ELSE sessions[id][f]]]
            /\ flow' = [flow EXCEPT ![p].pc = "holding", ![p].dirty = {},
                                     ![p].doc.version =
                                        IF versioned THEN @ + 1 ELSE @,
                                     ![p].overlapped = savePending(p, id),
                                     ![p].res = [kind |-> kind]]

RemoveParticipantSave(p) ==
  /\ flow[p].pc = "rem_save"
  /\ saveModified(p, "removed")
  /\ UNCHANGED <<now, authVars, nfcalls, nlcalls, events>>

(***************************************************************************)
(* session.isExpired, session.extendExpiration (User.js 423-443)           *)
(***************************************************************************)
isExpired(doc) == doc.expiresAt < now

\* new Date(Date.now() + minutes * 60 * 1000)
extendedExpiresAt_NoScale(minutes) == now + minutes

extendedExpiresAt(minutes) == now + minutes * 60 * 1000

ExtendExpirationCall(p) ==
  /\ LifeBegin(p)
  /\ \E m \in MinutesArgs :
       LET old == flow[p].doc
           new == [old EXCEPT !.expiresAt = extendedExpiresAt(m),
                              !.lastActivity = now]
       IN flow' = [flow EXCEPT ![p].pc = "ext_save",
                               ![p].doc = new,
                               ![p].dirty = modifiedPaths(old, new),
                               ![p].res = NoFlowResult]
  /\ UNCHANGED <<now, authVars, sessions, nfcalls, events>>

ExtendExpirationSave(p) ==
  /\ flow[p].pc = "ext_save"
  /\ saveModified(p, "extended")
  /\ UNCHANGED <<now, authVars, nfcalls, nlcalls, events>>

(***************************************************************************)
(* post('save') hooks of the message and file schemas (File.js 203-216,    *)
(* 352-365): Session.findByIdAndUpdate with $inc and $set; an id that      *)
(* matches nothing is no error.                                            *)
(***************************************************************************)
MessageCreate(id) ==
  /\ sessions[id] # NoSession
  /\ nlcalls < MaxLifeCalls
  /\ nlcalls' = nlcalls + 1
  /\ events' = [events EXCEPT ![id].messages = @ + 1, ![id].messageHooks = @ + 1]
  /\ UNCHANGED <<now, authVars, sessions, flow, nfcalls>>

\* save() of a message that is already stored runs the same hook.
MessageResave(id) ==
  /\ events[id].messages > 0
  /\ nlcalls < MaxLifeCalls
  /\ nlcalls' = nlcalls + 1
  /\ events' = [events EXCEPT ![id].messageHooks = @ + 1]
  /\ UNCHANGED <<now, authVars, sessions, flow, nfcalls>>

MessagePostSave(id) ==
  /\ events[id].messageHooks > 0
  /\ events' = [events EXCEPT ![id].messageHooks = @ - 1]
  /\ sessions' = IF sessions[id] = NoSession THEN sessions
                 ELSE [sessions EXCEPT ![id].messageCount = @ + 1,
                                       ![id].lastActivity = now]
  /\ UNCHANGED <<now, authVars, flow, nfcalls, nlcalls>>

FileCreate(id) ==
  /\ sessions[id] # NoSession
  /\ nlcalls < MaxLifeCalls
  /\ nlcalls' = nlcalls + 1
  /\ events' = [events EXCEPT ![id].files = @ + 1, ![id].fileHooks = @ + 1]
  /\ UNCHANGED <<now, authVars, sessions, flow, nfcalls>>

\* file.softDelete() (File.js 164-168): a stored file is marked deleted and
\* saved again, which runs the hook again.
FileSoftDelete(id) ==
  /\ events[id].files > 0
  /\ nlcalls < MaxLifeCalls
  /\ nlcalls' = nlcalls + 1
  /\ events' = [events EXCEPT ![id].fileHooks = @ + 1]
  /\ UNCHANGED <<now, authVars, sessions, flow, nfcalls>>

\* The hook's guard reads this.isNew, which the save has set to false by the
\* time a post('save') hook runs, for an inserted document as for an updated
\* one: the update inside the guard is never sent.
isNewInPostSave == FALSE

FilePostSave(id) ==
  /\ events[id].fileHooks > 0
  /\ events' = [events EXCEPT ![id].fileHooks = @ - 1]
  /\ sessions' = IF isNewInPostSave /\ sessions[id] # NoSession
                   THEN [sessions EXCEPT ![id].fileCount = @ + 1,
                                         ![id].lastActivity = now]
                   ELSE sessions
  /\ UNCHANGED <<now, authVars, flow, nfcalls, nlcalls>>

(***************************************************************************)
(* TTL index { expiresAt: 1 }, expireAfterSeconds 0 (User.js 292-312): a   *)
(* pass of the TTL monitor deletes every document whose expiresAt has      *)
(* passed, whatever its status.                                            *)
(***************************************************************************)
ttlExpired(doc) == doc.expiresAt < now

TtlPass ==
  /\ \E i \in StoredIds : ttlExpired(sessions[i])
  /\ sessions' = [i \in SessionIds |->
       IF sessions[i] # NoSession /\ ttlExpired(sessions[i])
         THEN NoSession ELSE sessions[i]]
  /\ UNCHANGED <<now, authVars, flow, nfcalls, nlcalls, events>>

\* Session.findOne({ pairingCode }) (User.js 372) or Session.findById
\* (testModels.js 120): the flow holds its own copy of a stored document.
Load(p) ==
  /\ flow[p].pc = "idle"
  /\ \E id \in StoredIds :
       flow' = [flow EXCEPT ![p] =
                  [IdleFlow EXCEPT
                     !.pc = "holding",
                     !.doc = [id |-> id,
                              participants |-> sessions[id].participants,
                              status |-> sessions[id].status,
                              expiresAt |-> sessions[id].expiresAt,
                              lastActivity |-> sessions[id].lastActivity,
                              version |-> sessions[id].version],
                     !.res = [kind |-> "loaded"]]]
  /\ UNCHANGED <<now, authVars, sessions, nfcalls, nlcalls, events>>

\* The caller reads the outcome and drops what it holds.
Release(p) ==
  /\ flow[p].pc \in {"holding", "failed"}
  /\ flow' = [flow EXCEPT ![p] = IdleFlow]
  /\ UNCHANGED <<now, authVars, sessions, nfcalls, nlcalls, events>>

SessNext ==
  \/ Tick
  \/ \E p \in SessProcs :
       \/ GenerateCall(p) \/ GenerateFind(p) \/ SessionCreate(p)
       \/ AddParticipantCall(p) \/ AddParticipantSave(p)
       \/ Release(p)

\* Two flows at work on copies of the same stored documents.
SharedNext ==
  \E p \in SessProcs :
    \/ GenerateCall(p) \/ GenerateFind(p) \/ SessionCreate(p)
    \/ Load(p)
    \/ AddParticipantCall(p) \/ AddParticipantSave(p)
    \/ RemoveParticipantCall(p) \/ RemoveParticipantSave(p)

\* One flow at a time: it allocates, creates, fills, empties and drops
\* sessions one after the other, so no two allocations overlap.
SoloNext ==
  \/ Tick
  \/ \E p \in LifeProcs :
       \/ GenerateCall(p) \/ GenerateFind(p) \/ SessionCreate(p)
       \/ AddParticipantCall(p) \/ AddParticipantSave(p)
       \/ RemoveParticipantCall(p) \/ RemoveParticipantSave(p)
       \/ Release(p)

\* The life of a session in the hands of one flow, with the hooks and the TTL
\* monitor at work beside it.
LifeNext ==
  \/ Tick
  \/ \E p \in LifeProcs :
       \/ GenerateCall(p) \/ GenerateFind(p) \/ SessionCreate(p)
       \/ AddParticipantCall(p) \/ AddParticipantSave(p)
       \/ RemoveParticipantCall(p) \/ RemoveParticipantSave(p)
       \/ ExtendExpirationCall(p) \/ ExtendExpirationSave(p)
  \/ \E id \in SessionIds :
       \/ MessageCreate(id) \/ MessageResave(id) \/ MessagePostSave(id)
       \/ FileCreate(id) \/ FileSoftDelete(id) \/ FilePostSave(id)
  \/ TtlPass

(***************************************************************************)
(* Server entry point: startServer (testModels.js 234-260) and connectDB    *)
(* (database.js 61-90)                                                     *)
(***************************************************************************)
Modes == {"development", "production"}

RetryDelayMs == 5000

\* main: where startServer is; retry: where the connectDB run started by the
\* retry timer is; connects: how many mongoose.connect calls have succeeded;
\* up: the connection is established; startedAfter (history): the number of
\* successful connects at the moment the server start step ran.
NoBoot == [mode |-> "none", uri |-> FALSE, main |-> "init", retry |-> "none",
           timerAt |-> NoDate, runs |-> 0, connects |-> 0, up |-> FALSE,
           startedAfter |-> NoDate]

BootInit == boot = NoBoot

\* The catch block of connectDB (lines 79-89): production schedules another
\* run in 5 seconds and returns normally; any other mode ends the process.
\* When it is the run startServer awaits that returns, startServer goes on to
\* its server start step.
connectFailed(b, awaited) ==
  IF b.mode = "production"
    THEN [b EXCEPT !.retry = "scheduled", !.timerAt = now + RetryDelayMs,
                   !.main = IF awaited THEN "started" ELSE @,
                   !.startedAfter = IF awaited THEN b.connects ELSE @]
    ELSE [b EXCEPT !.main = "exited", !.retry = "none", !.timerAt = NoDate]

\* mongoose.connect resolved (lines 72-78): the listeners are set up and
\* connectDB returns.
connectSucceeded(b, awaited) ==
  [b EXCEPT !.up = TRUE, !.connects = @ + 1,
            !.retry = IF awaited THEN @ ELSE "none",
            !.main = IF awaited THEN "started" ELSE @,
            !.startedAfter = IF awaited THEN b.connects + 1 ELSE @]

\* startServer() up to the first request it waits for: connectDB checks
\* MONGO_URI and calls mongoose.connect.
StartServer ==
  /\ boot.main = "init"
  /\ \E m \in Modes, u \in BOOLEAN :
       LET b == [boot EXCEPT !.mode = m, !.uri = u, !.runs = 1] IN
         boot' = IF u THEN [b EXCEPT !.main = "awaitConnect"]
                 ELSE connectFailed(b, TRUE)
  /\ UNCHANGED now

\* mongoose.connect of the awaited run is answered.
ConnectAnswered ==
  /\ boot.main = "awaitConnect"
  /\ \E ok \in BOOLEAN :
       boot' = IF ok THEN connectSucceeded(boot, TRUE)
               ELSE connectFailed(boot, TRUE)
  /\ UNCHANGED now

\* setTimeout(connectDB, 5000) fires: connectDB runs again, awaited by nobody.
TimerFires ==
  /\ boot.retry = "scheduled"
  /\ boot.main # "exited"
  /\ now >= boot.timerAt
  /\ boot.runs < MaxConnectRuns
  /\ LET b == [boot EXCEPT !.runs = @ + 1, !.timerAt = NoDate] IN
       boot' = IF b.uri THEN [b EXCEPT !.retry = "connecting"]
               ELSE connectFailed(b, FALSE)
  /\ UNCHANGED now

\* mongoose.connect of a run started by the timer is answered.
RetryAnswered ==
  /\ boot.retry = "connecting"
  /\ \E ok \in BOOLEAN :
       boot' = IF ok THEN connectSucceeded(boot, FALSE)
               ELSE connectFailed(boot, FALSE)
  /\ UNCHANGED now

\* The connection events the listeners log (database.js 107-129).
Disconnected ==
  /\ boot.up /\ boot.main # "exited"
  /\ boot' = [boot EXCEPT !.up = FALSE]
  /\ UNCHANGED now

Reconnected ==
  /\ ~boot.up /\ boot.connects > 0 /\ boot.main # "exited"
  /\ boot' = [boot EXCEPT !.up = TRUE]
  /\ UNCHANGED now

BootTick ==
  /\ now + RetryDelayMs <= MaxBootClock
  /\ now' = now + RetryDelayMs
  /\ UNCHANGED boot

StartNext ==
  \/ StartServer \/ ConnectAnswered
  \/ TimerFires \/ RetryAnswered
  \/ Disconnected \/ Reconnected
  \/ BootTick

vars == <<now, users, issued, accessIssued, apc, aarg, adoc, ares, ncalls, aobs, sessions, flow, nfcalls,
         nlcalls, events, boot>>

Init == now = 0 /\ AuthInit /\ SessInit /\ BootInit

AuthSpec == Init /\ [][AuthNext /\ UNCHANGED <<sessVars, boot>>]_vars

SessionSpec == Init /\ [][SessNext /\ UNCHANGED boot]_vars

LifecycleSpec == Init /\ [][LifeNext /\ UNCHANGED boot]_vars

VerifySpec == Init /\ [][VerifyNext /\ UNCHANGED <<sessVars, boot>>]_vars

SharedSpec == Init /\ [][SharedNext /\ UNCHANGED boot]_vars

SoloSpec == Init /\ [][SoloNext /\ UNCHANGED boot]_vars

FaultSpec == Init /\ [][FaultNext /\ UNCHANGED <<sessVars, boot>>]_vars

StartSpec == Init /\ [][StartNext /\ UNCHANGED <<authVars, sessVars>>]_vars

\* The TTL monitor keeps making its passes.
FairLifecycleSpec == LifecycleSpec /\ WF_vars(TtlPass /\ UNCHANGED boot)

\* Every store request of a flow is eventually answered.
FairSessionSpec ==
  SessionSpec /\ \A p \in SessProcs : WF_vars(GenerateFind(p) /\ UNCHANGED boot)

(***************************************************************************)
(* Token service: properties                                               *)
(***************************************************************************)
\* The step in which refresh call p reads the store and ends.
RefreshStep(p) == apc[p] = "refresh_find" /\ apc'[p] = "done"

\* C1: two concurrent refresh calls presenting the same refresh token, the one
\* stored in the identity's slot, end with exactly one success and one
\* RevokedToken failure.
C1_OneSuccessOneRevoked ==
  \A p \in AuthProcs : \A q \in AuthProcs \ {p} :
    ( /\ apc[p] = "done" /\ apc[q] = "done"
      /\ aarg[p].token # NoToken /\ aarg[p].token = aarg[q].token
      /\ aobs[p].overlap /\ aobs[q].overlap
      /\ aobs[p].slotMatch /\ aobs[q].slotMatch )
    => {ares[p].kind, ares[q].kind} = {"ok", "RevokedToken"}

\* C2: a refresh call whose token is correctly signed, unexpired and equal to
\* the stored slot of an existing active identity succeeds, returns a new pair,
\* and leaves the returned refresh token in the slot.
C2_RefreshRotates ==
  [][\A p \in AuthProcs :
       (RefreshStep(p) /\ Presentable(aarg[p].token))
       => /\ ares'[p].kind = "ok"
          /\ ares'[p].accessToken # NoToken
          /\ ares'[p].refreshToken # NoToken
          /\ users'[aarg[p].token.userId].refreshToken = ares'[p].refreshToken]_vars

\* C4: the store step of refresh is a compare-and-swap on the presented token:
\* it swaps the slot from the presented token to the token it returns, and when
\* the slot holds anything else (a login, a logout or another refresh changed
\* it) it fails with RevokedToken and leaves the slot as it found it.
C4_RefreshIsCompareAndSwap ==
  [][\A p \in AuthProcs :
       RefreshStep(p) =>
         LET t == aarg[p].token
             id == t.userId
         IN IF users[id] = NoUser THEN users' = users
            ELSE IF users[id].refreshToken = t
              THEN /\ users'[id].refreshToken = ares'[p].refreshToken
                   /\ ares'[p].refreshToken # NoToken
              ELSE /\ users' = users
                   /\ ares'[p].kind = "RevokedToken"]_vars

\* verifyRefreshToken raises no error for the token: the revocation check
\* refresh relies on lets it through.
Accepted(t) ==
  /\ verifyRefreshTokenSync(t) = "ok"
  /\ verifyRefreshTokenStored(t) = "undefined"

IssuedTo(id) == {t \in issued : t.userId = id}

\* C5: in every reachable state, of all the refresh tokens ever issued to an
\* identity at most one passes the checks of refresh.
C5_AtMostOneLiveToken ==
  \A id \in UserIds : Cardinality({t \in IssuedTo(id) : Accepted(t)}) <= 1

\* Two tokens have been issued to an identity, and one of them is live.
C5_Witness ==
  \E id \in UserIds :
    /\ Cardinality(IssuedTo(id)) >= 2
    /\ Cardinality({t \in IssuedTo(id) : Accepted(t)}) = 1
(***************************************************************************)
(* Pairing sessions: properties                                            *)
(***************************************************************************)
ActiveIds == {i \in StoredIds : sessions[i].status = "active"}

\* C6: at every instant at most one active session holds a given pairing code,
\* also when two creation flows have both seen the same code as free.
C6_OneActiveSessionPerCode ==
  \A i \in ActiveIds : \A j \in ActiveIds :
    i # j => sessions[i].pairingCode # sessions[j].pairingCode

\* A flow was handed a code as free, another flow's insert took the code first,
\* and the store turned this flow's insert down.
C6_Witness ==
  \E p \in SessProcs :
    /\ flow[p].res.kind = "E11000"
    /\ \E i \in ActiveIds : sessions[i].pairingCode = flow[p].code

\* The step in which generateUniquePairingCode returns a code to flow p.
AllocationReturns(p) == flow[p].pc = "gen_find" /\ flow'[p].pc = "allocated"

\* C7: every code a successful allocation returns is a string of exactly six
\* decimal digits and differs from the code of every active session at the
\* moment it is returned.
C7_ReturnedCodeSixDigitsAndFree ==
  [][\A p \in SessProcs :
       AllocationReturns(p) =>
         /\ matchesCodePattern(flow'[p].code)
         /\ \A i \in ActiveIds : sessions[i].pairingCode # flow'[p].code
         /\ \A i \in ActiveIds : sessions'[i].pairingCode # flow'[p].code]_vars

\* An allocation has returned the zero-padded code 000042 while another code is
\* held by an active session.
C7_Witness ==
  \E p \in SessProcs :
    /\ flow[p].pc = "allocated"
    /\ flow[p].code = <<0, 0, 0, 0, 4, 2>>
    /\ ActiveIds # {}

\* C8: an allocation whose draws all collide fails with the exhaustion error
\* after exactly maxRetries draws and draws no more; no allocation draws more
\* than maxRetries codes, and every allocation loop ends.
C8_ExhaustionAfterMaxRetries ==
  /\ [](\A p \in SessProcs :
          /\ flow[p].draws <= flow[p].maxRetries
          /\ flow[p].res.kind = "Exhausted"
               => /\ flow[p].draws = flow[p].maxRetries
                  /\ flow[p].attempt = flow[p].maxRetries)
  /\ [][\A p \in SessProcs :
          ( /\ flow[p].pc = "gen_find"
            /\ flow'[p] # flow[p]
            /\ flow[p].draws = flow[p].maxRetries
            /\ findOneByCode(flow[p].code) # {} )
          => /\ flow'[p].res.kind = "Exhausted"
             /\ flow'[p].draws = flow[p].draws]_vars
  /\ \A p \in SessProcs : (flow[p].pc = "gen_find") ~> (flow[p].pc # "gen_find")

\* An allocation with the default budget has failed after ten colliding draws.
C8_Witness ==
  \E p \in SessProcs :
    /\ flow[p].res.kind = "Exhausted"
    /\ flow[p].maxRetries = DefaultMaxRetries
    /\ flow[p].draws = DefaultMaxRetries

\* C9: a unique-constraint violation on the insert of a session is retried with
\* a new code and never ends the creation flow: no flow fails with the
\* duplicate-key error.
C9_CollisionIsRetried ==
  \A p \in SessProcs : flow[p].pc = "failed" => flow[p].res.kind # "E11000"

EntriesFor(participants, socketId) ==
  {i \in 1..Len(participants) : participants[i].socketId = socketId}

\* C10: addParticipant called again on a session document with a connection id
\* it already lists leaves exactly one entry for that id, the entry of the first
\* call with its join time, in the document and in the store.
C10_AddParticipantIdempotent ==
  /\ [](\A p \in SessProcs : \A sock \in SocketIds :
          Cardinality(EntriesFor(flow[p].doc.participants, sock)) <= 1)
  /\ [][\A p \in SessProcs :
          ( /\ flow[p].pc = "holding"
            /\ nfcalls' # nfcalls
            /\ EntriesFor(flow[p].doc.participants, flow'[p].socketId) # {} )
          => /\ flow'[p].doc = flow[p].doc
             /\ sessions' = sessions]_vars

\* A second addParticipant with the same id has returned, later than the join
\* time of the entry the first call made.
C10_Witness ==
  \E p \in SessProcs :
    /\ flow[p].res.kind = "unchanged"
    /\ \E i \in EntriesFor(flow[p].doc.participants, flow[p].socketId) :
         /\ flow[p].doc.participants[i].joinedAt < now
         /\ sessions[flow[p].doc.id].participants = flow[p].doc.participants

(***************************************************************************)
(* Session life cycle: properties                                          *)
(***************************************************************************)
\* The step in which a save() of flow p, begun at position pc, is answered.
SaveStep(p, pc) == flow[p].pc = pc /\ flow'[p].pc = "holding"

HeldStored(p) == sessions[flow[p].doc.id] # NoSession

\* C11: removeParticipant on the sole remaining participant sets the status of
\* the session to closed, and a status that is closed (or expired) is changed
\* by no later addParticipant, removeParticipant, extendExpiration or counter
\* increment.
C11_ClosedIsTerminal ==
  /\ [][\A p \in LifeProcs :
          ( /\ flow[p].pc = "holding" /\ flow'[p].pc = "rem_save"
            /\ Len(flow[p].doc.participants) = 1
            /\ flow[p].doc.participants[1].socketId = flow'[p].socketId )
          => flow'[p].doc.status = "closed"]_vars
  /\ [][\A p \in LifeProcs :
          ( /\ SaveStep(p, "rem_save") /\ HeldStored(p)
            /\ "participants" \in flow[p].dirty
            /\ flow[p].doc.participants = <<>> )
          => /\ sessions'[flow[p].doc.id].status = "closed"
             /\ sessions'[flow[p].doc.id].participants = <<>>]_vars
  /\ [][\A i \in SessionIds :
          (sessions[i] # NoSession /\ sessions[i].status \in {"closed", "expired"})
          => \/ sessions'[i] = NoSession
             \/ sessions'[i].status = sessions[i].status]_vars

\* The only participant was removed, the session is closed, and an
\* addParticipant made after that has been saved.
C11_Witness ==
  \E p \in LifeProcs :
    /\ flow[p].res.kind = "added"
    /\ nfcalls = 3
    /\ HeldStored(p)
    /\ sessions[flow[p].doc.id].status = "closed"
    /\ Len(sessions[flow[p].doc.id].participants) = 1

\* C12: in every reachable state a session whose status is closed has an empty
\* participant list.
C12_ClosedHasNoParticipants ==
  \A i \in StoredIds :
    sessions[i].status = "closed" => sessions[i].participants = <<>>

\* C13: removeParticipant with a connection id that is not in the participant
\* list changes neither the participant list nor the status of the session.
C13_RemoveAbsentIsNoOp ==
  [][\A p \in LifeProcs :
       ( /\ SaveStep(p, "rem_save") /\ HeldStored(p)
         /\ "participants" \notin flow[p].dirty )
       => /\ sessions'[flow[p].doc.id].participants
               = sessions[flow[p].doc.id].participants
          /\ sessions'[flow[p].doc.id].status
               = sessions[flow[p].doc.id].status]_vars

\* C14 as stated: extendExpiration(m) on an active session strictly increases
\* the expiry timestamp relative to its previous value.
C14_ExtendStrictlyIncreases ==
  [][\A p \in LifeProcs :
       ( /\ SaveStep(p, "ext_save") /\ HeldStored(p)
         /\ sessions[flow[p].doc.id].status = "active" )
       => sessions'[flow[p].doc.id].expiresAt
            > sessions[flow[p].doc.id].expiresAt]_vars

\* C14: extendExpiration(m) sets the expiry timestamp to the time of the call
\* plus m minutes, whatever the previous expiry was, and that is the value its
\* save() stores.
C14_ExtendResetsFromCallTime ==
  /\ [][\A p \in LifeProcs :
          (flow[p].pc = "holding" /\ flow'[p].pc = "ext_save")
          => \E m \in MinutesArgs :
               flow'[p].doc.expiresAt = now + m * 60 * 1000]_vars
  /\ [][\A p \in LifeProcs :
          ( /\ SaveStep(p, "ext_save") /\ HeldStored(p)
            /\ flow'[p].res.kind = "extended" )
          => sessions'[flow[p].doc.id].expiresAt = flow[p].doc.expiresAt]_vars

\* An extendExpiration(1) on an active session has been saved: the expiry is
\* one minute after the call.
C14_Witness ==
  \E p \in LifeProcs :
    /\ flow[p].res.kind = "extended"
    /\ HeldStored(p)
    /\ sessions[flow[p].doc.id].status = "active"
    /\ sessions[flow[p].doc.id].expiresAt >= 60000
    /\ sessions[flow[p].doc.id].expiresAt <= 60000 + now

\* C15: extendExpiration on a session whose status is closed or expired leaves
\* every field of the session as it was.
C15_ExtendOnTerminalIsNoOp ==
  [][\A p \in LifeProcs :
       ( /\ SaveStep(p, "ext_save") /\ HeldStored(p)
         /\ sessions[flow[p].doc.id].status \in {"closed", "expired"} )
       => sessions'[flow[p].doc.id] = sessions[flow[p].doc.id]]_vars

\* C16: right after a session is created and right after every
\* extendExpiration, its expiry timestamp is strictly later than the clock.
C16_ExpiryInTheFuture ==
  [][\A p \in LifeProcs :
       /\ (flow[p].pc = "allocated" /\ flow'[p].pc = "holding")
            => sessions'[flow'[p].doc.id].expiresAt > now'
       /\ ( /\ SaveStep(p, "ext_save") /\ HeldStored(p)
            /\ flow'[p].res.kind = "extended" )
            => sessions'[flow[p].doc.id].expiresAt > now']_vars

\* C17: Session.create without an expiresAt, for a well-formed code that no
\* stored session has, succeeds and stores an active session with no
\* participants, both counters 0 and expiry = clock + 30 minutes.
C17_DefaultExpiryCreates ==
  [][\A p \in LifeProcs :
       ( /\ flow[p].pc = "allocated" /\ flow'[p].pc # "allocated"
         /\ ~flow'[p].expiryGiven
         /\ matchesCodePattern(flow[p].code)
         /\ ~uniqueIndexRejects(flow[p].code) )
       => /\ flow'[p].pc = "holding"
          /\ sessions'[flow'[p].doc.id].status = "active"
          /\ sessions'[flow'[p].doc.id].participants = <<>>
          /\ sessions'[flow'[p].doc.id].messageCount = 0
          /\ sessions'[flow'[p].doc.id].fileCount = 0
          /\ sessions'[flow'[p].doc.id].expiresAt
               = now + SessionExpiryMinutes * 60 * 1000]_vars

\* C18: no session leaves the store while its status is active, and an active
\* session whose expiry has passed is eventually marked expired unless it is
\* extended or closed first.
C18_ExpiredBeforeReleased ==
  /\ [][\A i \in SessionIds :
          (sessions[i] # NoSession /\ sessions'[i] = NoSession)
          => sessions[i].status # "active"]_vars
  /\ \A i \in SessionIds :
       (sessions[i] # NoSession /\ sessions[i].status = "active"
          /\ sessions[i].expiresAt < now)
       ~> (sessions[i] # NoSession
             /\ (sessions[i].status # "active" \/ sessions[i].expiresAt >= now))

\* C19: addParticipant and removeParticipant on a stored session whose expiry
\* has passed change neither its participant list nor its status nor its
\* last-activity.
C19_LogicallyExpiredIsDenied ==
  [][\A p \in LifeProcs :
       ( /\ SaveStep(p, "add_save") \/ SaveStep(p, "rem_save")
         /\ HeldStored(p)
         /\ isExpired(sessions[flow[p].doc.id]) )
       => /\ sessions'[flow[p].doc.id].participants
               = sessions[flow[p].doc.id].participants
          /\ sessions'[flow[p].doc.id].status = sessions[flow[p].doc.id].status
          /\ sessions'[flow[p].doc.id].lastActivity
               = sessions[flow[p].doc.id].lastActivity]_vars

(***************************************************************************)
(* register: properties                                                    *)
(***************************************************************************)
EmailTaken(email) == \E i \in ExistingIds : users[i].email = email

\* C20: register with an email that already belongs to an identity fails with
\* the 409 error 'Email already registered' and leaves the users collection as
\* it was; no two identities ever have the same email.
C20_RegisterExistingEmailConflicts ==
  /\ [][\A p \in AuthProcs :
          ( /\ apc[p] = "reg_find" /\ apc'[p] # "reg_find"
            /\ EmailTaken(aarg[p].email) )
          => /\ ares'[p].kind = "EmailAlreadyRegistered"
             /\ users' = users]_vars
  /\ [](\A i \in ExistingIds : \A j \in ExistingIds :
          i # j => users[i].email # users[j].email)

\* A register with the email of an existing identity and another password has
\* failed with the conflict; the identity still has its credential hash.
C20_Witness ==
  \E p \in AuthProcs :
    /\ apc[p] = "done"
    /\ ares[p].kind = "EmailAlreadyRegistered"
    /\ \E i \in ExistingIds :
         /\ users[i].email = aarg[p].email
         /\ users[i].password # [text |-> aarg[p].password, hashes |-> 1]
         /\ users[i].refreshToken # NoToken

\* The call of p is a register call (only register passes a role).
IsRegister(p) == aarg[p].role # "none"

\* C21: a register call that does not succeed fails with the 409 error 'Email
\* already registered', also when it lost a race against another register for
\* the same email; no two identities have the same email.
C21_ConcurrentRegisterConflicts ==
  /\ \A p \in AuthProcs :
       (apc[p] = "done" /\ IsRegister(p) /\ ares[p].kind # "ok")
       => ares[p].kind = "EmailAlreadyRegistered"
  /\ \A i \in ExistingIds : \A j \in ExistingIds \ {i} :
       users[i].email # users[j].email

\* C22: when register returns successfully the identity exists, its stored
\* refresh slot is the refresh token returned, and its stored credential is
\* not the raw password.
C22_RegisterStoresReturnedToken ==
  [][\A p \in AuthProcs :
       (apc[p] = "reg_save" /\ apc'[p] = "done")
       => /\ ares'[p].kind = "ok"
          /\ users'[adoc[p].id] # NoUser
          /\ users'[adoc[p].id].email = aarg[p].email
          /\ ares'[p].refreshToken # NoToken
          /\ users'[adoc[p].id].refreshToken = ares'[p].refreshToken
          /\ users'[adoc[p].id].password # Plain(aarg[p].password)]_vars

\* A register has returned its pair and the slot holds the refresh token of
\* the pair.
C22_Witness ==
  \E p \in AuthProcs :
    /\ apc[p] = "done" /\ IsRegister(p) /\ ares[p].kind = "ok"
    /\ \E i \in ExistingIds :
         /\ users[i].email = aarg[p].email
         /\ users[i].refreshToken = ares[p].refreshToken
         /\ users[i].password = [text |-> aarg[p].password, hashes |-> 1]

\* C23: login with an unknown email, or with a password that is not the one
\* the stored hash was made from, fails with 'Invalid credentials' and leaves
\* the users collection as it was, so the token in the slot passes the
\* revocation check as before.
C23_FailedLoginChangesNothing ==
  [][\A p \in AuthProcs :
       ( /\ apc[p] = "login_find" /\ apc'[p] # "login_find"
         /\ \A i \in ExistingIds :
              users[i].email = aarg[p].email
              => users[i].password # [text |-> aarg[p].password, hashes |-> 1] )
       => /\ apc'[p] = "done"
          /\ ares'[p].kind = "InvalidCredentials"
          /\ users' = users
          /\ \A t \in issued : refreshResult(t)' = refreshResult(t)]_vars

\* A login with the wrong password has failed while the identity's slot holds
\* a token that still passes the revocation check.
C23_Witness ==
  \E p \in AuthProcs :
    /\ apc[p] = "done" /\ ares[p].kind = "InvalidCredentials"
    /\ \E i \in ExistingIds :
         /\ users[i].email = aarg[p].email
         /\ users[i].refreshToken # NoToken
         /\ refreshResult(users[i].refreshToken) = "TypeError"

\* C24: the save of a successful login stores the refresh token it issued and
\* the new last-login, and from then on no refresh token issued to the
\* identity before passes the comparison with the slot.
C24_LoginRevokesEarlierTokens ==
  [][\A p \in AuthProcs :
       (apc[p] = "login_save" /\ apc'[p] = "done")
       => /\ users'[adoc[p].id].refreshToken = adoc[p].refreshToken
          /\ users'[adoc[p].id].lastLogin = adoc[p].lastLogin
          /\ \A t \in IssuedTo(adoc[p].id) :
               (t # adoc[p].refreshToken \/ adoc[p].reissue)
               => users'[adoc[p].id].refreshToken # t]_vars

\* C25 as stated: while the slot of an identity is empty, refresh with any
\* refresh token issued to it fails with RevokedToken.
C25_EmptySlotRevokesAll ==
  \A i \in ExistingIds :
    users[i].refreshToken = NoToken
    => \A t \in IssuedTo(i) : refreshResult(t) = "RevokedToken"

\* C25: logout leaves the slot of the identity empty, and while the slot is
\* empty refresh with a refresh token issued to the identity fails: with
\* RevokedToken while the token is unexpired, with TokenExpiredError after.
C25_LogoutEmptiesSlot ==
  /\ [][\A p \in AuthProcs :
          (apc[p] = "logout_update" /\ apc'[p] = "done"
             /\ users[aarg[p].userId] # NoUser)
          => users'[aarg[p].userId].refreshToken = NoToken]_vars
  /\ [](\A i \in ExistingIds :
          users[i].refreshToken = NoToken
          => \A t \in IssuedTo(i) :
               refreshResult(t) = IF NowSec < t.exp THEN "RevokedToken"
                                  ELSE "TokenExpiredError")

\* A logout has emptied the slot of an identity that holds an unexpired
\* refresh token.
C25_Witness ==
  \E p \in AuthProcs :
    /\ apc[p] = "done" /\ aarg[p].userId # 0 /\ ares[p].kind = "ok"
    /\ users[aarg[p].userId] # NoUser
    /\ users[aarg[p].userId].refreshToken = NoToken
    /\ \E t \in IssuedTo(aarg[p].userId) : NowSec < t.exp

(***************************************************************************)
(* Access-token verification                                               *)
(***************************************************************************)
\* Step of p that is a whole verifyAccessToken call.
VerifyAccessStep(p) ==
  /\ apc[p] = "idle" /\ apc'[p] = "done"
  /\ aarg'[p].call = "verifyAccessToken"

\* C26: verifyAccess is stateless.  For a token the service issued, the
\* outcome of the call is decided by the token and the clock alone: success
\* with the token's user while the clock is before its expiry, the expiry
\* error from then on, whatever the users collection holds (slot set, slot
\* emptied by logout, document removed).
C26_VerifyAccessIsStateless ==
  [][\A p \in AuthProcs :
       (VerifyAccessStep(p) /\ aarg'[p].token \in accessIssued) =>
         LET t == aarg'[p].token IN
           /\ ares'[p].kind = IF NowSec < t.exp THEN "ok" ELSE "TokenExpiredError"
           /\ ares'[p].kind = "ok" => ares'[p].userId = t.userId
           /\ users' = users]_vars

\* An issued token verified successfully although its user has no active
\* refresh token, or is no longer stored.
C26_Witness ==
  \E p \in AuthProcs :
    /\ apc[p] = "done" /\ ares[p].kind = "ok"
    /\ aarg[p].call = "verifyAccessToken"
    /\ aarg[p].token \in accessIssued
    /\ \/ users[aarg[p].token.userId] = NoUser
       \/ users[aarg[p].token.userId].refreshToken = NoToken

\* C27: verifyAccess reports the kind of failure.  A correctly signed token
\* past its expiry gives the expiry error; a token whose signature does not
\* match, or an unexpired one whose issuer or audience does not match, gives
\* the invalid-token error; success returns the payload's user exactly when
\* signature, expiry, issuer and audience all pass.
C27_VerifyAccessKinds ==
  [][\A p \in AuthProcs : VerifyAccessStep(p) =>
       LET t == aarg'[p].token
           signed == t.key = "access"
           fresh == NowSec < t.exp
           named == t.aud = "ctrl-w-client" /\ t.iss = "ctrl-w-api"
       IN /\ (signed /\ ~fresh) => ares'[p].kind = "TokenExpiredError"
          /\ ~signed => ares'[p].kind = "JsonWebTokenError"
          /\ (signed /\ fresh /\ ~named) => ares'[p].kind = "JsonWebTokenError"
          /\ ares'[p].kind = "ok" <=> (signed /\ fresh /\ named)
          /\ ares'[p].kind = "ok" => ares'[p].userId = t.userId]_vars

\* Both failure kinds have been returned, one for an expired issued token and
\* one for an unexpired token naming another audience.
C27_Witness ==
  /\ \E p \in AuthProcs :
       /\ apc[p] = "done" /\ ares[p].kind = "TokenExpiredError"
       /\ aarg[p].call = "verifyAccessToken"
       /\ aarg[p].token \in accessIssued
  /\ \E p \in AuthProcs :
       /\ apc[p] = "done" /\ ares[p].kind = "JsonWebTokenError"
       /\ aarg[p].call = "verifyAccessToken"
       /\ aarg[p].token.key = "access" /\ aarg[p].token.aud # "ctrl-w-client"
       /\ NowSec < aarg[p].token.exp

\* C28: verifyUserToken succeeds exactly when verifyAccess succeeds on the
\* token and the user it names is stored and active, returns that user's id,
\* and never writes to the users collection.
C28_VerifyUserToken ==
  [][\A p \in AuthProcs :
       /\ (apc[p] = "idle" /\ apc'[p] = "vut_find") =>
            /\ jwtVerify(aarg'[p].token, "access") = "ok"
            /\ users' = users
       /\ (apc[p] = "idle" /\ apc'[p] = "done"
             /\ aarg'[p].call = "verifyUserToken") =>
            /\ jwtVerify(aarg'[p].token, "access") # "ok"
            /\ ares'[p].kind # "ok"
            /\ users' = users
       /\ (apc[p] = "vut_find" /\ apc'[p] = "done") =>
            LET id == aarg[p].token.userId IN
              /\ ares'[p].kind = "ok" <=> (users[id] # NoUser /\ users[id].isActive)
              /\ ares'[p].kind = "ok" => ares'[p].userId = id
              /\ users' = users]_vars

\* A verifyUserToken call was rejected after its token verified, because the
\* user is no longer stored, and another one succeeded.
C28_Witness ==
  /\ \E p \in AuthProcs :
       /\ apc[p] = "done" /\ ares[p].kind = "UserNotFoundOrInactive"
       /\ users[aarg[p].token.userId] = NoUser
  /\ \E p \in AuthProcs :
       /\ apc[p] = "done" /\ ares[p].kind = "ok"
       /\ aarg[p].call = "verifyUserToken"
       /\ ares[p].userId = aarg[p].token.userId

(***************************************************************************)
(* Session counters                                                        *)
(***************************************************************************)
\* C29: counter increments are atomic.  Once every post-save hook of the
\* messages and files created for a stored session has run, whatever joins,
\* leaves and extensions ran beside them, messageCount is at least the number
\* of messages created and fileCount at least the number of files created:
\* no creation's increment is missing.
C29_NoIncrementLost ==
  \A id \in StoredIds :
    (events[id].messageHooks = 0 /\ events[id].fileHooks = 0) =>
      /\ sessions[id].messageCount >= events[id].messages
      /\ sessions[id].fileCount >= events[id].files

\* C30: messageCount counts creations only.  Once every post-save hook of a
\* stored session's messages has run, after creations and re-saves of stored
\* messages, messageCount equals the number of messages created.
C30_MessageCountIsCreations ==
  \A id \in StoredIds :
    events[id].messageHooks = 0 =>
      sessions[id].messageCount = events[id].messages

\* C32: saving a newly created file adds exactly 1 to its session's fileCount
\* and re-saving a stored file adds nothing.  Once every post-save hook of a
\* stored session's files has run, fileCount equals the number of files
\* created for the session.
C32_FileCountIsCreations ==
  \A id \in StoredIds :
    events[id].fileHooks = 0 => sessions[id].fileCount = events[id].files

(***************************************************************************)
(* Token type                                                              *)
(***************************************************************************)
\* C35: refresh accepts only tokens of type refresh.  A refresh call that is
\* given an access token (signed with the access secret, or with a secret
\* equal to the refresh secret) ends with an error before it reads the
\* store, is never successful, and leaves the users collection as it was.
C35_RefreshRejectsAccessTokens ==
  [][\A p \in AuthProcs :
       (apc[p] = "idle" /\ apc'[p] # "idle" /\ aarg'[p].token # NoToken
          /\ aarg'[p].call = "none" /\ aarg'[p].token.typ # "refresh") =>
         /\ apc'[p] = "done"
         /\ ares'[p].kind \in {"JsonWebTokenError", "TokenExpiredError",
                               "InvalidTokenType"}
         /\ users' = users]_vars

\* A refresh call given an unexpired access token of a stored user, signed
\* with the refresh secret, was rejected for its type.
C35_Witness ==
  \E p \in AuthProcs :
    /\ apc[p] = "done" /\ ares[p].kind = "InvalidTokenType"
    /\ aarg[p].token.typ # "refresh" /\ aarg[p].token.key = "refresh"
    /\ NowSec < aarg[p].token.exp
    /\ users[aarg[p].token.userId] # NoUser

(***************************************************************************)
(* Credential hash                                                         *)
(***************************************************************************)
\* C39: the stored credential hash changes only when the password is set.
\* The hash stored at registration is the hash of the password given; no
\* later step (the saves of register and login) changes it; so a login with
\* that password passes the credential check whenever it reads the document.
C39_HashOnlyWhenPasswordSet ==
  [][/\ \A i \in UserIds :
          users[i] # NoUser =>
            users'[i] # NoUser /\ users'[i].password = users[i].password
     /\ \A p \in AuthProcs :
          /\ (apc[p] = "reg_create" /\ apc'[p] = "reg_save") =>
                users'[adoc'[p].id].password = [text |-> aarg[p].password, hashes |-> 1]
          /\ (apc[p] = "login_find" /\ apc'[p] = "done") =>
                \A i \in ExistingIds :
                  users[i].email = aarg[p].email =>
                    users[i].password # [text |-> aarg[p].password, hashes |-> 1]]_vars

\* A login passed the credential check on a document that an earlier login
\* had saved.
C39_Witness ==
  \E p \in AuthProcs :
    /\ apc[p] = "done" /\ ares[p].kind = "ok"
    /\ aarg[p].role = "none" /\ aarg[p].email # "none"
    /\ adoc[p].resaved
    /\ users[adoc[p].id].password = [text |-> aarg[p].password, hashes |-> 1]

(***************************************************************************)
(* Inactive identities                                                     *)
(***************************************************************************)
\* C38: no operation issues a token pair for an identity whose activity flag
\* is false.  A login that finds such an identity fails without signing
\* tokens, a verifyUserToken that reads one fails, and neither step changes
\* its stored refresh slot.
C38_InactiveGetsNoTokens ==
  [][\A p \in AuthProcs :
       /\ (apc[p] = "login_find" /\ apc'[p] # "login_find") =>
            \A i \in ExistingIds :
              (users[i].email = aarg[p].email /\ ~users[i].isActive) =>
                /\ apc'[p] = "done" /\ ares'[p].kind # "ok"
                /\ issued' = issued /\ accessIssued' = accessIssued
                /\ users' = users
       /\ (apc[p] = "vut_find" /\ apc'[p] = "done") =>
            LET i == aarg[p].token.userId IN
              (users[i] # NoUser /\ ~users[i].isActive) =>
                ares'[p].kind # "ok" /\ users' = users]_vars

(***************************************************************************)
(* Store failures                                                          *)
(***************************************************************************)
\* C31: a transient store failure inside a core operation is surfaced with
\* its own kind and causes no state transition: whenever a call ends with
\* the store's network error, the error carries no authentication status
\* and nothing was written.
C31_TransientKeepsKind ==
  [][\A p \in AuthProcs :
       (apc[p] # "done" /\ apc'[p] = "done"
          /\ ares'[p].kind = "MongoNetworkError") =>
         /\ ares'[p].statusCode # Unauthorized
         /\ users' = users]_vars

\* C36: register is safe to retry.  When a register call reads the store and
\* finds the identity that an earlier register call with the same email and
\* password created but whose refresh token was never persisted (empty slot,
\* no register about to save it), it does not end with the conflict error.
C36_RegisterRetrySucceeds ==
  [][\A p \in AuthProcs :
       (/\ apc[p] = "reg_find" /\ apc'[p] # "reg_find"
        /\ \E i \in ExistingIds :
             /\ users[i].email = aarg[p].email
             /\ users[i].password = [text |-> aarg[p].password, hashes |-> 1]
             /\ users[i].refreshToken = NoToken
             /\ \A q \in AuthProcs : ~(apc[q] = "reg_save" /\ adoc[q].id = i))
       => ~(apc'[p] = "done" /\ ares'[p].kind = "EmailAlreadyRegistered")]_vars

(***************************************************************************)
(* Allocation without concurrency                                          *)
(***************************************************************************)
\* C40: without concurrent allocations, a code the allocator has returned is
\* the code of no stored session, whatever the status or expiry of the
\* sessions stored, and the insert of a session with it is never rejected by
\* the unique index.
C40_ReturnedCodeInsertsCleanly ==
  /\ [](\A p \in LifeProcs :
          flow[p].pc = "allocated" =>
            \A i \in StoredIds : sessions[i].pairingCode # flow[p].code)
  /\ [][\A p \in LifeProcs :
          (flow[p].pc = "allocated" /\ flow'[p].pc # "allocated") =>
            flow'[p].res.kind # "E11000"]_vars

\* A session was inserted with a freshly allocated code, drawn after a draw
\* that collided, while a session that is closed or past its expiry is still
\* stored.
C40_Witness ==
  \E p \in LifeProcs :
    /\ flow[p].pc = "holding" /\ flow[p].res.kind = "created"
    /\ flow[p].attempt > 0
    /\ \E i \in StoredIds \ {flow[p].doc.id} :
         \/ sessions[i].status = "closed"
         \/ sessions[i].expiresAt < now

(***************************************************************************)
(* Participants under concurrency                                          *)
(***************************************************************************)
\* C33: connection ids stay unique within a stored session, also when two
\* addParticipant calls with the same id run on separately loaded copies: no
\* stored participant list has two entries with the same connection id.
C33_StoredIdsUnique ==
  \A id \in StoredIds : \A sock \in SocketIds :
    Cardinality(EntriesFor(sessions[id].participants, sock)) <= 1

\* Flow q is about to have its save answered, for a call of kind pc on
\* connection id mine, and flow p has had the save of its call of kind `done`
\* on connection id theirs answered while q's save was under way, both on
\* their own copies of the same document.
SecondSave(q, pc, mine, p, done, theirs) ==
  /\ p # q
  /\ flow[q].pc = pc /\ flow'[q].pc = "holding" /\ flow[q].socketId = mine
  /\ flow[p].pc = "holding" /\ flow[p].res.kind = done
  /\ flow[p].socketId = theirs /\ flow[p].overlapped
  /\ flow[p].doc.id = flow[q].doc.id
  /\ sessions[flow[q].doc.id] # NoSession

\* C34: simultaneous joins and leaves lose no update.  When addParticipant(a)
\* and removeParticipant(b), a # b and b in the list both copies were loaded
\* with, run concurrently on separately loaded copies, then once both saves
\* are answered the stored list contains a and not b, and the session is
\* closed only if the stored list is empty.
C34_JoinAndLeaveBothApplied ==
  [][\A p \in SessProcs : \A q \in SessProcs :
     \A a \in SocketIds : \A b \in SocketIds \ {a} :
       ( \/ /\ SecondSave(q, "add_save", a, p, "removed", b)
            /\ EntriesFor(flow[q].doc.participants, b) # {}
         \/ /\ SecondSave(q, "rem_save", b, p, "added", a)
            /\ EntriesFor(flow[p].doc.participants, b) # {} )
       => LET after == sessions'[flow[q].doc.id] IN
            /\ EntriesFor(after.participants, a) # {}
            /\ EntriesFor(after.participants, b) = {}
            /\ after.status = "closed" => after.participants = <<>>]_vars

(***************************************************************************)
(* Server start                                                            *)
(***************************************************************************)
\* C37: the server start step is never reached before a database connection
\* has been established: whenever startServer has run its server start step,
\* in development and in production, a mongoose.connect had succeeded before
\* it.
C37_StartFollowsConnect ==
  boot.main = "started" => boot.startedAfter > 0


====
